---- MODULE Spec2Model ----
(***************************************************************************)
(* Model of the credential vault page of fortify                           *)
(* (frontend/src/pages/CredentialVault.tsx) and of the navbar's signout    *)
(* handler.  The page is a React component: its useState cells are the     *)
(* variables below, every async handler is a task that is suspended at     *)
(* each await, and one action is the synchronous code between two awaits   *)
(* (JavaScript runs it to completion), followed by the render and the      *)
(* effect React runs for the state it wrote.                               *)
(***************************************************************************)
EXTENDS Integers, Sequences, FiniteSets, TLC

\* ------------------------------------------------------------------ bounds
MaxTasks == 2        \* async handler invocations in flight at once
MaxEntries == 2      \* entries the storage backend ever creates
MaxTampers == 1      \* envelopes the environment corrupts in storage
MaxStarts == 3       \* handlers the user starts (unlock, add, update, delete, signout)

\* ------------------------------------------------------- program constants
AUTO_LOCK_TIME == 1 * 60 * 1000
TickMs == AUTO_LOCK_TIME \div 2

\* JavaScript's null, and the two rejections the utilities produce
Null == [null |-> TRUE]
NoKey == Null
NoEnvelope == Null
NoEntry == Null
DecryptionFailed == [rejected |-> "DecryptionFailed"]
UnsupportedKdfMethod == [rejected |-> "UnsupportedKdfMethod"]

MsgUnlock == "Incorrect master password or decryption failed."
MsgAdd == "Failed to add entry."
MsgDelete == "Failed to delete entry."
MsgUpdate == "Failed to update entry."

\* The vault's provisioning, held by the storage backend.
VaultPassword == "correct-horse"
Passwords == {"correct-horse", "wrong"}
Salt == "S1"
Method == "kdf-v1"
SupportedMethods == {"kdf-v1"}
Secret == "challenge"

Fields == <<"website", "username", "password", "notes">>
\* what the user fills the add form with (website, username and password
\* are required fields), and what the user types over a field of the edit
\* form
w == "example.com"
u == "alice"
NewEntries == {[website |-> w, username |-> u, password |-> "p@ss", notes |-> n] :
                  n \in {"", "memo"}}
TamperedFields == {"password"}
EmptyEntry == [website |-> "", username |-> "", password |-> "", notes |-> ""]
Typed(f) ==
    CASE f = "website" -> {w}
      [] f = "username" -> {u}
      [] f = "password" -> {"p@ss2"}
      [] f = "notes" -> {""}

\* ------------------------------------------------- cryptography (utils)
deriveKey(password, salt, method) ==
    IF method \in SupportedMethods
    THEN [aesKey |-> [use |-> "aes", pw |-> password, salt |-> salt],
          hmacKey |-> [use |-> "hmac", pw |-> password, salt |-> salt]]
    ELSE UnsupportedKdfMethod

base64ToBuffer(b64) == [bytes |-> b64]

createHMAC(hmacKey, secret) == [tag |-> hmacKey, over |-> secret]

encryptData(plaintext, key) == [pt |-> plaintext, key |-> key, intact |-> TRUE]

\* a settled promise: the plaintext, or the rejection
decryptData(envelope, key) ==
    IF envelope.key = key /\ envelope.intact
    THEN [plaintext |-> envelope.pt]
    ELSE DecryptionFailed

\* the server's reply to getEncryptionSalt, by outcome
Verification ==
    [secret |-> Secret,
     hmac |-> createHMAC(deriveKey(VaultPassword, base64ToBuffer(Salt), Method).hmacKey,
                        Secret)]
SaltReply(outcome) ==
    CASE outcome = "ok" ->
           [encryptionSalt |-> Salt, keyDerivationMethod |-> Method,
            verification |-> Verification]
      [] outcome = "unsupported" ->
           [encryptionSalt |-> Salt, keyDerivationMethod |-> "kdf-x",
            verification |-> Verification]
      [] outcome = "missing" ->
           [encryptionSalt |-> Salt, keyDerivationMethod |-> Method,
            verification |-> Null]

VARIABLES
    masterPassword, vaultUnlocked, credentials, editingEntry, error,
    isUnlocking, isAdding, isUpdating, showAddForm, newEntry, aesKey,
    timers, timeoutRef, listening,
    vault, nextId, tampers,
    tasks,
    isLoggedIn, mounted, signoutPending, signoutUnlocked,
    lastUnlock, idle, started

ui == <<masterPassword, vaultUnlocked, credentials, editingEntry, error,
        isUnlocking, isAdding, isUpdating, showAddForm, newEntry, aesKey>>
clock == <<timers, timeoutRef, listening>>
storage == <<vault, nextId, tampers>>
\* signoutUnlocked is a ghost: the pending signout was issued while Unlocked
nav == <<isLoggedIn, mounted, signoutPending, signoutUnlocked>>
ghost == <<lastUnlock, idle, started>>
vars == <<ui, clock, storage, tasks, nav, ghost>>

\* ------------------------------------------------------------ helpers
Remove(s, i) == SubSeq(s, 1, i - 1) \o SubSeq(s, i + 1, Len(s))
Range(s) == {s[i] : i \in 1..Len(s)}
\* ghost: how the handleUnlock invocation that finished last ended, until a
\* handler rewrites the error message
NoUnlock ==
    [cause |-> "none", n |-> 0, origin |-> "none", vaultCalls |-> 0,
     decryptCalls |-> 0]

\* window.setTimeout hands out a positive id no pending timer uses
FreshTimerId(tms) == CHOOSE n \in 1..(Cardinality(tms) + 1) : \A t \in tms : t.id # n
clearTimeout(tms, id) == {t \in tms : t.id # id}

\* a resetAutoLockTimer that schedules without cancelling the pending timer
resetAutoLockTimerNoCancel(tms, ref) ==
    LET id == FreshTimerId(tms)
    IN [timers |-> tms \cup {[id |-> id, left |-> AUTO_LOCK_TIME]},
        timeoutRef |-> id]

\* resetAutoLockTimer: cancel the timer the ref names, schedule lockVault
\* (a pending timer is its id and the time left until it fires; setTimeout
\* does not hand out the id it has just cancelled)
resetAutoLockTimer(tms, ref) ==
    LET cleared == IF ref # 0 THEN clearTimeout(tms, ref) ELSE tms
        id == FreshTimerId(cleared \cup {[id |-> ref, left |-> 0]})
    IN [timers |-> cleared \cup {[id |-> id, left |-> AUTO_LOCK_TIME]},
        timeoutRef |-> id]

\* The effect on [vaultUnlocked]: run by React after a render in which
\* vaultUnlocked changed.  false -> true: listeners on, timer started;
\* true -> false: the cleanup removes the listeners and clears the timer.
ActivityEffect(was, is, tms, ref, lst) ==
    IF ~was /\ is
    THEN LET r == resetAutoLockTimer(tms, ref)
         IN [timers |-> r.timers, timeoutRef |-> r.timeoutRef, listening |-> TRUE]
    ELSE IF was /\ ~is
    THEN [timers |-> IF ref # 0 THEN clearTimeout(tms, ref) ELSE tms,
          timeoutRef |-> ref, listening |-> FALSE]
    ELSE [timers |-> tms, timeoutRef |-> ref, listening |-> lst]

\* ------------------------------------------------ decryption of the vault
\* the async callback of encrypted.data.map: fields in order, the first
\* failure rejects the entry
decryptEntry(entry, key) ==
    LET decryptedWebsite == decryptData(entry.website, key)
        decryptedUsername == decryptData(entry.username, key)
        decryptedPassword == decryptData(entry.password, key)
        decryptedNotes == IF entry.notes # NoEnvelope
                          THEN decryptData(entry.notes, key)
                          ELSE [plaintext |-> ""]
    IN IF DecryptionFailed \in {decryptedWebsite, decryptedUsername,
                                decryptedPassword, decryptedNotes}
       THEN DecryptionFailed
       ELSE [_id |-> entry._id, website |-> entry.website,
             username |-> entry.username, password |-> entry.password,
             notes |-> entry.notes,
             decryptedWebsite |-> decryptedWebsite.plaintext,
             decryptedUsername |-> decryptedUsername.plaintext,
             decryptedPassword |-> decryptedPassword.plaintext,
             decryptedNotes |-> decryptedNotes.plaintext]

\* decryptData calls the callback makes for one entry
decryptCallsOf(entry, key) ==
    IF decryptData(entry.website, key) = DecryptionFailed THEN 1
    ELSE IF decryptData(entry.username, key) = DecryptionFailed THEN 2
    ELSE IF decryptData(entry.password, key) = DecryptionFailed THEN 3
    ELSE IF entry.notes # NoEnvelope THEN 4 ELSE 3

RECURSIVE SumCalls(_, _)
SumCalls(encrypted, key) ==
    IF encrypted = <<>> THEN 0
    ELSE decryptCallsOf(Head(encrypted), key) + SumCalls(Tail(encrypted), key)

\* a refresh that loses the entry stored last
decryptAllButLast(encrypted, key) ==
    [i \in 1..(Len(encrypted) - 1) |-> decryptEntry(encrypted[i], key)]

decryptAll(encrypted, key) == [i \in 1..Len(encrypted) |-> decryptEntry(encrypted[i], key)]

\* ------------------------------------------------------------- tasks
\* A suspended invocation of handleUnlock: where it waits, what its closure
\* captured (masterPassword) and its locals.  n numbers the user action
\* it goes back to, origin is who called it ("user", or the mutation that
\* refreshes), added the id of the entry that mutation created;
\* lockedSince / parentLocked record a lockVault since it / its caller
\* started, alone that no other handler was in flight with it or its
\* caller; vaultCalls / decryptCalls count its collaborator calls.
UnlockTask(n, password, origin, parentLocked, added, alone) ==
    [kind |-> "unlock", n |-> n, pc |-> "salt", origin |-> origin,
     parentLocked |-> parentLocked, added |-> added, alone |-> alone,
     masterPassword |-> password, reply |-> "none",
     aesKey |-> NoKey, hmacKey |-> NoKey, encrypted |-> <<>>,
     vaultCalls |-> 0, decryptCalls |-> 0, lockedSince |-> FALSE]

\* the tasks once handler t has started beside them
Started(t) == Append([i \in 1..Len(tasks) |-> [tasks[i] EXCEPT !.alone = FALSE]], t)

Init ==
    /\ masterPassword = ""
    /\ vaultUnlocked = FALSE
    /\ credentials = <<>>
    /\ editingEntry = NoEntry
    /\ error = ""
    /\ isUnlocking = FALSE
    /\ isAdding = FALSE
    /\ isUpdating = FALSE
    /\ showAddForm = FALSE
    /\ newEntry = EmptyEntry
    /\ aesKey = NoKey
    /\ timers = {}
    /\ timeoutRef = 0
    /\ listening = FALSE
    /\ vault = <<>>
    /\ nextId = 1
    /\ tampers = 0
    /\ tasks = <<>>
    /\ isLoggedIn = TRUE
    /\ mounted = TRUE
    /\ signoutPending = FALSE
    /\ signoutUnlocked = FALSE
    /\ lastUnlock = NoUnlock
    /\ idle = -1
    /\ started = 0

\* ------------------------------------------------------------ the page
\* onChange of the master password input (locked view)
ChangeMasterPassword(pw) ==
    /\ mounted /\ ~vaultUnlocked
    /\ masterPassword' = pw
    /\ UNCHANGED <<vaultUnlocked, credentials, editingEntry, error, isUnlocking,
                   isAdding, isUpdating, showAddForm, newEntry, aesKey>>
    /\ UNCHANGED <<clock, storage, tasks, nav, ghost>>

\* handleUnlock up to its first await; the Unlock button is disabled
\* while isUnlocking
handleUnlock ==
    /\ mounted /\ ~vaultUnlocked /\ ~isUnlocking
    /\ Len(tasks) < MaxTasks
    /\ error' = ""
    /\ isUnlocking' = TRUE
    /\ tasks' = Started(UnlockTask(started + 1, masterPassword, "user", FALSE, 0,
                                    tasks = <<>>))
    /\ started < MaxStarts
    /\ started' = started + 1
    /\ lastUnlock' = NoUnlock
    /\ UNCHANGED <<masterPassword, vaultUnlocked, credentials, editingEntry,
                   isAdding, isUpdating, showAddForm, newEntry, aesKey>>
    /\ UNCHANGED <<clock, storage, nav, idle>>

\* a catch block that tells a wrong password from the other failures
UnlockFailedTelling(i, cause) ==
    /\ error' = IF cause = "mismatch" THEN "Incorrect master password." ELSE MsgUnlock
    /\ isUnlocking' = FALSE
    /\ tasks' = Remove(tasks, i)
    /\ lastUnlock' = [cause |-> cause, n |-> tasks[i].n,
                      origin |-> tasks[i].origin,
                      vaultCalls |-> tasks[i].vaultCalls,
                      decryptCalls |-> tasks[i].decryptCalls]
    /\ UNCHANGED <<masterPassword, vaultUnlocked, credentials, editingEntry,
                   isAdding, isUpdating, showAddForm, newEntry, aesKey>>
    /\ UNCHANGED <<clock, storage, nav, idle, started>>

\* the catch and finally blocks of handleUnlock
UnlockFailed(i, cause) ==
    /\ error' = MsgUnlock
    /\ isUnlocking' = FALSE
    /\ tasks' = Remove(tasks, i)
    /\ lastUnlock' = [cause |-> cause, n |-> tasks[i].n,
                      origin |-> tasks[i].origin,
                      vaultCalls |-> tasks[i].vaultCalls,
                      decryptCalls |-> tasks[i].decryptCalls]
    /\ UNCHANGED <<masterPassword, vaultUnlocked, credentials, editingEntry,
                   isAdding, isUpdating, showAddForm, newEntry, aesKey>>
    /\ UNCHANGED <<clock, storage, nav, idle, started>>

UnlockContinues(i, t) ==
    /\ tasks' = [tasks EXCEPT ![i] = t]
    /\ UNCHANGED <<ui, clock, storage, nav, ghost>>

\* getEncryptionSalt settles: the destructuring, the missing-data check
\* and the call of deriveKey
UnlockSaltDone(i, outcome) ==
    /\ i \in 1..Len(tasks) /\ tasks[i].kind = "unlock" /\ tasks[i].pc = "salt"
    /\ IF outcome = "reject" THEN UnlockFailed(i, "reject")
       ELSE LET response == SaltReply(outcome)
            IN IF \/ response.encryptionSalt = ""
                  \/ response.keyDerivationMethod = ""
                  \/ response.verification = Null
               THEN UnlockFailed(i, "missing")
               ELSE UnlockContinues(i, [tasks[i] EXCEPT !.pc = "derive",
                                                         !.reply = outcome])

\* deriveKey settles; createHMAC is called
UnlockDeriveDone(i) ==
    /\ i \in 1..Len(tasks) /\ tasks[i].kind = "unlock" /\ tasks[i].pc = "derive"
    /\ LET response == SaltReply(tasks[i].reply)
           keys == deriveKey(tasks[i].masterPassword,
                             base64ToBuffer(response.encryptionSalt),
                             response.keyDerivationMethod)
       IN IF keys = UnsupportedKdfMethod
          THEN UnlockFailed(i, "unsupported")
          ELSE UnlockContinues(i, [tasks[i] EXCEPT !.pc = "hmac",
                                                    !.aesKey = keys.aesKey,
                                                    !.hmacKey = keys.hmacKey])

\* a handleUnlock without the comparison of the tags
verifiedUnchecked(t) == TRUE

\* does the tag computed from the derived key equal the server's?
verified(t) ==
    LET verification == SaltReply(t.reply).verification
        hmacToVerify == createHMAC(t.hmacKey, verification.secret)
    IN hmacToVerify = verification.hmac

\* createHMAC settles: the comparison, then getEncryptedVault is called
UnlockHmacDone(i) ==
    /\ i \in 1..Len(tasks) /\ tasks[i].kind = "unlock" /\ tasks[i].pc = "hmac"
    /\ IF ~verified(tasks[i])
       THEN UnlockFailed(i, "mismatch")
       ELSE UnlockContinues(i, [tasks[i] EXCEPT !.pc = "vault",
                                                 !.vaultCalls = @ + 1])

\* getEncryptedVault settles: Promise.all over the entries starts the
\* decryptions
UnlockVaultDone(i, ok) ==
    /\ i \in 1..Len(tasks) /\ tasks[i].kind = "unlock" /\ tasks[i].pc = "vault"
    /\ IF ~ok THEN UnlockFailed(i, "fetch")
       ELSE UnlockContinues(i, [tasks[i] EXCEPT
                !.pc = "decrypt",
                !.encrypted = vault,
                !.decryptCalls = SumCalls(vault, tasks[i].aesKey)])

\* Promise.allSettled in place of Promise.all: never rejects
allSettled(decrypted) == TRUE

\* Promise.all over the entries' callbacks fulfils when every one did
allFulfilled(decrypted) == DecryptionFailed \notin Range(decrypted)

\* Promise.all settles: rejected when any entry's callback rejected,
\* otherwise the three state writes, the render and the effect
UnlockDecryptDone(i) ==
    /\ i \in 1..Len(tasks) /\ tasks[i].kind = "unlock" /\ tasks[i].pc = "decrypt"
    /\ LET decrypted == decryptAll(tasks[i].encrypted, tasks[i].aesKey)
       IN IF ~allFulfilled(decrypted)
          THEN UnlockFailed(i, "decrypt")
          ELSE LET e == ActivityEffect(vaultUnlocked, TRUE, timers, timeoutRef,
                                       listening)
               IN /\ aesKey' = tasks[i].aesKey
                  /\ credentials' = decrypted
                  /\ vaultUnlocked' = TRUE
                  /\ isUnlocking' = FALSE
                  /\ timers' = e.timers
                  /\ timeoutRef' = e.timeoutRef
                  /\ listening' = e.listening
                  /\ idle' = IF vaultUnlocked THEN idle ELSE 0
                  /\ tasks' = Remove(tasks, i)
                  /\ lastUnlock' = [cause |-> "ok", n |-> tasks[i].n,
                                    origin |-> tasks[i].origin,
                                    vaultCalls |-> tasks[i].vaultCalls,
                                    decryptCalls |-> tasks[i].decryptCalls]
                  /\ UNCHANGED <<masterPassword, editingEntry, error, isAdding,
                                 isUpdating, showAddForm, newEntry>>
                  /\ UNCHANGED <<storage, nav, started>>

\* ------------------------------------------------------ the auto-lock
\* a lockVault that forgets setAesKey(null) and setCredentials([])
lockVaultKeeps(tms, ref) ==
    [vaultUnlocked |-> FALSE, aesKey |-> aesKey, credentials |-> credentials,
     editingEntry |-> NoEntry, showAddForm |-> FALSE, masterPassword |-> "",
     timers |-> IF ref # 0 THEN clearTimeout(tms, ref) ELSE tms,
     timeoutRef |-> 0]

\* a lockVault that wipes the session but forgets setVaultUnlocked(false)
lockVaultStaysUnlocked(tms, ref) ==
    [vaultUnlocked |-> vaultUnlocked, aesKey |-> NoKey, credentials |-> <<>>,
     editingEntry |-> NoEntry, showAddForm |-> FALSE, masterPassword |-> "",
     timers |-> IF ref # 0 THEN clearTimeout(tms, ref) ELSE tms,
     timeoutRef |-> 0]

\* lockVault: the six state writes and the cancellation of the timer the
\* ref names
lockVault(tms, ref) ==
    [vaultUnlocked |-> FALSE, aesKey |-> NoKey, credentials |-> <<>>,
     editingEntry |-> NoEntry, showAddForm |-> FALSE, masterPassword |-> "",
     timers |-> IF ref # 0 THEN clearTimeout(tms, ref) ELSE tms,
     timeoutRef |-> 0]

MarkLocked(ts) == [i \in 1..Len(ts) |-> [ts[i] EXCEPT !.lockedSince = TRUE]]

\* the setTimeout callback of resetAutoLockTimer fires: lockVault, then
\* the render and the effect's cleanup
AutoLock ==
    \E t \in timers :
        /\ mounted /\ t.left = 0
        /\ LET l == lockVault(timers \ {t}, timeoutRef)
               e == ActivityEffect(vaultUnlocked, l.vaultUnlocked, l.timers,
                                   l.timeoutRef, listening)
           IN /\ vaultUnlocked' = l.vaultUnlocked
              /\ aesKey' = l.aesKey
              /\ credentials' = l.credentials
              /\ editingEntry' = l.editingEntry
              /\ showAddForm' = l.showAddForm
              /\ masterPassword' = l.masterPassword
              /\ timers' = e.timers
              /\ timeoutRef' = e.timeoutRef
              /\ listening' = e.listening
        /\ tasks' = MarkLocked(tasks)
        /\ idle' = -1
        /\ UNCHANGED <<error, isUnlocking, isAdding, isUpdating, newEntry>>
        /\ UNCHANGED <<storage, nav, lastUnlock, started>>

\* listeners that are registered whether or not the vault is unlocked
ActivityUnguarded ==
    /\ mounted
    /\ LET r == resetAutoLockTimer(timers, timeoutRef)
       IN /\ timers' = r.timers
          /\ timeoutRef' = r.timeoutRef
          /\ idle' = 0
    /\ UNCHANGED <<ui, listening, storage, tasks, nav, lastUnlock, started>>

\* a mousemove or keydown event: handleActivity, when the listeners are on
Activity ==
    /\ mounted
    /\ IF listening
       THEN LET r == resetAutoLockTimer(timers, timeoutRef)
            IN /\ timers' = r.timers
               /\ timeoutRef' = r.timeoutRef
               /\ idle' = 0
       ELSE UNCHANGED <<timers, timeoutRef, idle>>
    /\ UNCHANGED <<ui, listening, storage, tasks, nav, lastUnlock, started>>

\* TickMs of time pass; a due timer fires before the clock moves on
Tick ==
    /\ timers # {}
    /\ \A t \in timers : t.left > 0
    /\ timers' = {[t EXCEPT !.left = @ - TickMs] : t \in timers}
    /\ idle' = IF idle >= 0 THEN idle + TickMs ELSE idle
    /\ UNCHANGED <<ui, timeoutRef, listening, storage, tasks, nav, lastUnlock,
                   started>>

\* ------------------------------------------------------ the forms
\* "+ Add Entry" and the add form's Cancel
SetShowAddForm(b) ==
    /\ mounted /\ vaultUnlocked /\ showAddForm # b
    /\ showAddForm' = b
    /\ UNCHANGED <<masterPassword, vaultUnlocked, credentials, editingEntry, error,
                   isUnlocking, isAdding, isUpdating, newEntry, aesKey>>
    /\ UNCHANGED <<clock, storage, tasks, nav, ghost>>

\* the add form is filled in: the onChange handlers of its fields, each
\* setNewEntry({...newEntry, field: value}), taken together
ChangeNewEntry(e) ==
    /\ mounted /\ vaultUnlocked /\ showAddForm /\ newEntry # e
    /\ newEntry' = e
    /\ UNCHANGED <<masterPassword, vaultUnlocked, credentials, editingEntry, error,
                   isUnlocking, isAdding, isUpdating, showAddForm, aesKey>>
    /\ UNCHANGED <<clock, storage, tasks, nav, ghost>>

\* handleEdit of a row, and the edit form's Cancel (entry = null)
handleEdit(entry) ==
    /\ mounted /\ vaultUnlocked /\ editingEntry # entry
    /\ editingEntry' = entry
    /\ UNCHANGED <<masterPassword, vaultUnlocked, credentials, error,
                   isUnlocking, isAdding, isUpdating, showAddForm, newEntry, aesKey>>
    /\ UNCHANGED <<clock, storage, tasks, nav, ghost>>

EditField(f) ==
    CASE f = "website" -> "decryptedWebsite"
      [] f = "username" -> "decryptedUsername"
      [] f = "password" -> "decryptedPassword"
      [] f = "notes" -> "decryptedNotes"

\* onChange of a field of the edit form
ChangeEditingEntry(f, v) ==
    /\ mounted /\ vaultUnlocked /\ editingEntry # NoEntry
    /\ editingEntry[EditField(f)] # v
    /\ editingEntry' = [editingEntry EXCEPT ![EditField(f)] = v]
    /\ UNCHANGED <<masterPassword, vaultUnlocked, credentials, error,
                   isUnlocking, isAdding, isUpdating, showAddForm, newEntry, aesKey>>
    /\ UNCHANGED <<clock, storage, tasks, nav, ghost>>

\* ------------------------------------------------------ the mutations
\* handlers that encrypt the notes whether or not there are any
encryptFieldsAlways(website, username, password, notes, key) ==
    [website |-> encryptData(website, key),
     username |-> encryptData(username, key),
     password |-> encryptData(password, key),
     notes |-> encryptData(notes, key)]

\* the envelopes add and update build: notes only when it is not empty
encryptFields(website, username, password, notes, key) ==
    [website |-> encryptData(website, key),
     username |-> encryptData(username, key),
     password |-> encryptData(password, key),
     notes |-> IF notes # "" THEN encryptData(notes, key) ELSE NoEnvelope]

\* A suspended add / update / delete handler: what its closure captured
\* (aesKey, the form's entry, and masterPassword through handleUnlock)
MutationTask(n, kind, pc, key, password, entry, id) ==
    [kind |-> kind, n |-> n, pc |-> pc, aesKey |-> key, masterPassword |-> password,
     entry |-> entry, _id |-> id, envelopes |-> Null, lockedSince |-> FALSE,
     alone |-> tasks = <<>>]

\* may a handler with this session key go on?
hasKey(key) == key # NoKey

\* handleAddEntry up to its first await (the form's fields are required,
\* its button is disabled while isAdding)
handleAddEntry ==
    /\ mounted /\ vaultUnlocked /\ showAddForm /\ ~isAdding
    /\ newEntry.website # "" /\ newEntry.username # "" /\ newEntry.password # ""
    /\ Len(tasks) < MaxTasks /\ started < MaxStarts
    /\ IF ~hasKey(aesKey)
       THEN UNCHANGED vars
       ELSE /\ isAdding' = TRUE
            /\ error' = ""
            /\ tasks' = Started(MutationTask(started + 1, "add", "encrypt", aesKey,
                                              masterPassword, newEntry, 0))
            /\ UNCHANGED <<masterPassword, vaultUnlocked, credentials, editingEntry,
                           isUnlocking, isUpdating, showAddForm, newEntry, aesKey>>
            /\ started' = started + 1
            /\ lastUnlock' = NoUnlock
            /\ UNCHANGED <<clock, storage, nav, idle>>

\* the edit form's onSubmit up to its first await
handleUpdateEntry ==
    /\ mounted /\ vaultUnlocked /\ editingEntry # NoEntry /\ ~isUpdating
    /\ Len(tasks) < MaxTasks /\ started < MaxStarts
    /\ IF ~hasKey(aesKey)
       THEN UNCHANGED vars
       ELSE /\ isUpdating' = TRUE
            /\ error' = ""
            /\ tasks' = Started(
                  MutationTask(started + 1, "update", "encrypt", aesKey, masterPassword,
                      [website |-> editingEntry.decryptedWebsite,
                       username |-> editingEntry.decryptedUsername,
                       password |-> editingEntry.decryptedPassword,
                       notes |-> editingEntry.decryptedNotes],
                      editingEntry._id))
            /\ UNCHANGED <<masterPassword, vaultUnlocked, credentials, editingEntry,
                           isUnlocking, isAdding, showAddForm, newEntry, aesKey>>
            /\ started' = started + 1
            /\ lastUnlock' = NoUnlock
            /\ UNCHANGED <<clock, storage, nav, idle>>

\* handleDelete of a row, confirmed, up to its await
handleDelete(id) ==
    /\ mounted /\ vaultUnlocked
    /\ \E k \in 1..Len(credentials) : credentials[k]._id = id
    /\ Len(tasks) < MaxTasks /\ started < MaxStarts
    /\ started' = started + 1
    /\ tasks' = Started(MutationTask(started + 1, "delete", "submit", aesKey,
                                      masterPassword, EmptyEntry, id))
    /\ UNCHANGED <<ui, clock, storage, nav, lastUnlock, idle>>

\* the encryptData calls of add / update settle; addEntry or updateEntry
\* is called with the envelopes
MutationEncryptDone(i) ==
    /\ i \in 1..Len(tasks) /\ tasks[i].kind \in {"add", "update"}
    /\ tasks[i].pc = "encrypt"
    /\ LET t == tasks[i]
           e == t.entry
       IN tasks' = [tasks EXCEPT ![i] =
               [t EXCEPT !.pc = "submit",
                         !.envelopes = encryptFields(e.website, e.username,
                                                     e.password, e.notes, t.aesKey)]]
    /\ UNCHANGED <<ui, clock, storage, nav, ghost>>

HasId(v, id) == \E k \in 1..Len(v) : v[k]._id = id
Stored(id, envelopes) ==
    [_id |-> id, website |-> envelopes.website, username |-> envelopes.username,
     password |-> envelopes.password, notes |-> envelopes.notes]
SelectSeq2(v, id) == SelectSeq(v, LAMBDA x : x._id # id)

\* what the storage backend holds after serving the request of task t
Served(t) ==
    CASE t.kind = "add" -> Append(vault, Stored(nextId, t.envelopes))
      [] t.kind = "update" ->
           [k \in 1..Len(vault) |->
               IF vault[k]._id = t._id THEN Stored(t._id, t.envelopes) ELSE vault[k]]
      [] t.kind = "delete" -> SelectSeq2(vault, t._id)

FailureMsg(kind) ==
    CASE kind = "add" -> MsgAdd
      [] kind = "update" -> MsgUpdate
      [] kind = "delete" -> MsgDelete

\* handleUnlock() called by a mutation handler: the closure of the render
\* the handler belongs to, so the password that render held
refresh(t) ==
    UnlockTask(t.n, t.masterPassword, t.kind, t.lockedSince,
               IF t.kind = "add" THEN nextId ELSE 0, t.alone)

\* handlers that call handleUnlock() in the finally block, so also after a
\* failed request
MutationSubmitDoneRefreshing(i, ok) ==
    /\ i \in 1..Len(tasks) /\ tasks[i].kind \in {"add", "update", "delete"}
    /\ tasks[i].pc = "submit"
    /\ LET t == tasks[i]
       IN /\ ok => IF t.kind = "add" THEN nextId <= MaxEntries ELSE HasId(vault, t._id)
          /\ vault' = IF ok THEN Served(t) ELSE vault
          /\ nextId' = IF ok /\ t.kind = "add" THEN nextId + 1 ELSE nextId
          /\ tasks' = [tasks EXCEPT ![i] = refresh(t)]
          /\ error' = IF ok THEN "" ELSE FailureMsg(t.kind)
          /\ isUnlocking' = TRUE
          /\ showAddForm' = IF ok /\ t.kind = "add" THEN FALSE ELSE showAddForm
          /\ newEntry' = IF ok /\ t.kind = "add" THEN EmptyEntry ELSE newEntry
          /\ editingEntry' = IF ok /\ t.kind = "update" THEN NoEntry ELSE editingEntry
          /\ isAdding' = IF t.kind = "add" THEN FALSE ELSE isAdding
          /\ isUpdating' = IF t.kind = "update" THEN FALSE ELSE isUpdating
    /\ lastUnlock' = NoUnlock
    /\ UNCHANGED <<masterPassword, vaultUnlocked, credentials, aesKey>>
    /\ UNCHANGED <<clock, tampers, nav, idle, started>>

\* addEntry / updateEntry / deleteEntry settles: on success the form is
\* reset and handleUnlock() is called (not awaited); on failure the flow's
\* message is set; the finally block clears the flow's flag
MutationSubmitDone(i, ok) ==
    /\ i \in 1..Len(tasks) /\ tasks[i].kind \in {"add", "update", "delete"}
    /\ tasks[i].pc = "submit"
    /\ LET t == tasks[i]
       IN /\ ok => IF t.kind = "add" THEN nextId <= MaxEntries ELSE HasId(vault, t._id)
          /\ vault' = IF ok THEN Served(t) ELSE vault
          /\ nextId' = IF ok /\ t.kind = "add" THEN nextId + 1 ELSE nextId
          /\ tasks' = IF ok THEN [tasks EXCEPT ![i] = refresh(t)] ELSE Remove(tasks, i)
          /\ error' = IF ok THEN "" ELSE FailureMsg(t.kind)
          /\ isUnlocking' = IF ok THEN TRUE ELSE isUnlocking
          /\ showAddForm' = IF ok /\ t.kind = "add" THEN FALSE ELSE showAddForm
          /\ newEntry' = IF ok /\ t.kind = "add" THEN EmptyEntry ELSE newEntry
          /\ editingEntry' = IF ok /\ t.kind = "update" THEN NoEntry ELSE editingEntry
          /\ isAdding' = IF t.kind = "add" THEN FALSE ELSE isAdding
          /\ isUpdating' = IF t.kind = "update" THEN FALSE ELSE isUpdating
    /\ lastUnlock' = NoUnlock
    /\ UNCHANGED <<masterPassword, vaultUnlocked, credentials, aesKey>>
    /\ UNCHANGED <<clock, tampers, nav, idle, started>>

\* ------------------------------------------------- the storage backend
\* an envelope is corrupted at rest (the model corrupts password envelopes)
Tamper(k, f) ==
    /\ tampers < MaxTampers /\ f \in TamperedFields
    /\ k \in 1..Len(vault)
    /\ vault[k][f] # NoEnvelope /\ vault[k][f].intact
    /\ vault' = [vault EXCEPT ![k][f].intact = FALSE]
    /\ tampers' = tampers + 1
    /\ UNCHANGED <<ui, clock, nextId, tasks, nav, ghost>>

\* ------------------------------------------------------------ the navbar
\* handleSignout up to its await (the button shows on the vault page
\* while logged in)
handleSignout ==
    /\ mounted /\ isLoggedIn /\ ~signoutPending
    /\ started < MaxStarts
    /\ started' = started + 1
    /\ signoutPending' = TRUE
    /\ signoutUnlocked' = vaultUnlocked
    /\ UNCHANGED <<ui, clock, storage, tasks, isLoggedIn, mounted, lastUnlock, idle>>

\* signout() settles.  Fulfilled: setIsLoggedIn(false), setUser(null) and
\* navigate("/"), which takes the vault page off the screen: React runs the
\* effect's cleanup and drops the component's state, and what its
\* suspended handlers write later goes nowhere.  Rejected: the catch block
\* logs and nothing else happens.
SignoutDone(ok) ==
    /\ signoutPending
    /\ signoutPending' = FALSE
    /\ signoutUnlocked' = FALSE
    /\ IF ok
       THEN LET e == ActivityEffect(vaultUnlocked, FALSE, timers, timeoutRef,
                                    listening)
            IN /\ isLoggedIn' = FALSE
               /\ mounted' = FALSE
               /\ masterPassword' = ""
               /\ vaultUnlocked' = FALSE
               /\ credentials' = <<>>
               /\ editingEntry' = NoEntry
               /\ error' = ""
               /\ isUnlocking' = FALSE
               /\ isAdding' = FALSE
               /\ isUpdating' = FALSE
               /\ showAddForm' = FALSE
               /\ newEntry' = EmptyEntry
               /\ aesKey' = NoKey
               /\ timers' = e.timers
               /\ timeoutRef' = e.timeoutRef
               /\ listening' = e.listening
               /\ tasks' = <<>>
               /\ idle' = -1
               /\ lastUnlock' = NoUnlock
               /\ UNCHANGED <<storage, started>>
       ELSE UNCHANGED <<ui, clock, storage, tasks, isLoggedIn, mounted, ghost>>

\* ------------------------------------------------------ specification
UnlockStep ==
    \E i \in 1..MaxTasks :
        \/ \E outcome \in {"ok", "unsupported", "missing", "reject"} :
               UnlockSaltDone(i, outcome)
        \/ UnlockDeriveDone(i)
        \/ UnlockHmacDone(i)
        \/ \E ok \in BOOLEAN : UnlockVaultDone(i, ok)
        \/ UnlockDecryptDone(i)

MutationStep ==
    \E i \in 1..MaxTasks :
        \/ MutationEncryptDone(i)
        \/ \E ok \in BOOLEAN : MutationSubmitDone(i, ok)

FormStep ==
    \/ \E b \in BOOLEAN : SetShowAddForm(b)
    \/ \E e \in NewEntries : ChangeNewEntry(e)
    \/ \E k \in 1..Len(credentials) : handleEdit(credentials[k])
    \/ handleEdit(NoEntry)
    \/ \E k \in 1..Len(Fields) : \E v \in Typed(Fields[k]) :
           ChangeEditingEntry(Fields[k], v)

Next ==
    \/ \E pw \in Passwords : ChangeMasterPassword(pw)
    \/ handleUnlock
    \/ UnlockStep
    \/ AutoLock
    \/ Activity
    \/ Tick
    \/ FormStep
    \/ handleAddEntry
    \/ handleUpdateEntry
    \/ \E id \in 1..MaxEntries : handleDelete(id)
    \/ MutationStep
    \/ \E k \in 1..MaxEntries : \E f \in TamperedFields : Tamper(k, f)
    \/ handleSignout
    \/ \E ok \in BOOLEAN : SignoutDone(ok)

Spec == Init /\ [][Next]_vars

\* time passes, and the browser runs the callback of a due timer
FairSpec == Spec /\ WF_vars(Tick) /\ WF_vars(AutoLock)

\* ================================================================ claims
TaskIds == 1..Len(tasks)
IsUnlock(i) == tasks[i].kind = "unlock"
IsMutation(i) == tasks[i].kind \in {"add", "update", "delete"}
\* the tag a task's derived key gives is the server's expected tag
TagMatches(t) ==
    createHMAC(t.hmacKey, Verification.secret) = Verification.hmac
\* entry k of a fetched vault does not decrypt under the key
FailsToDecrypt(entry, key) ==
    \E f \in {"website", "username", "password", "notes"} :
        /\ entry[f] # NoEnvelope
        /\ ~(entry[f].key = key /\ entry[f].intact)

\* C1: whenever the vault is Locked, no session key is resident, the list
\* of decrypted entries is empty and no inactivity timer is pending.
C1_LockedIsWiped ==
    ~vaultUnlocked => (aesKey = NoKey /\ credentials = <<>> /\ timers = {})

\* lockVault has run over a session that held entries, with a handler in
\* flight
C1_Witness ==
    /\ mounted /\ ~vaultUnlocked /\ vault # <<>>
    /\ \E i \in TaskIds : tasks[i].lockedSince

\* C2: an unlock attempt whose tag differs from the server's never calls
\* getEncryptedVault and never calls decryptData.
C2_VerifyBeforeDecrypt ==
    /\ \A i \in TaskIds :
          (IsUnlock(i) /\ (\/ tasks[i].pc \in {"vault", "decrypt"}
                           \/ tasks[i].vaultCalls + tasks[i].decryptCalls > 0))
              => TagMatches(tasks[i])
    /\ lastUnlock.cause = "mismatch"
          => lastUnlock.vaultCalls = 0 /\ lastUnlock.decryptCalls = 0
    /\ lastUnlock.cause \in {"fetch", "decrypt", "ok"} => lastUnlock.vaultCalls = 1

\* an attempt with a wrong password has ended on the mismatch
C2_Witness == lastUnlock.cause = "mismatch" /\ error = MsgUnlock

\* C3: the decrypted entries are published all or none: credentials never
\* holds a failed entry, and the step in which an attempt with a failing
\* field ends writes neither credentials nor aesKey nor vaultUnlocked.
C3_EndsFailing(i) ==
    /\ i \in TaskIds /\ IsUnlock(i) /\ tasks[i].pc = "decrypt"
    /\ \E k \in 1..Len(tasks[i].encrypted) :
           FailsToDecrypt(tasks[i].encrypted[k], tasks[i].aesKey)
    /\ mounted'
    /\ \A j \in 1..Len(tasks') : tasks'[j].n # tasks[i].n
C3_AllOrNothing ==
    /\ [](\A k \in 1..Len(credentials) :
              /\ credentials[k] # DecryptionFailed
              /\ ~FailsToDecrypt(credentials[k], aesKey))
    /\ [][(\E i \in 1..MaxTasks : C3_EndsFailing(i))
             => UNCHANGED <<credentials, aesKey, vaultUnlocked>>]_vars

\* an attempt over two entries ended on a failed field after a sibling
\* entry had decrypted
C3_Witness ==
    /\ lastUnlock.cause = "decrypt" /\ lastUnlock.decryptCalls >= 6
    /\ error = MsgUnlock

\* task i is in flight now and gone after the step (it ended: handlers
\* of one user action share n)
Ends(i) == \A j \in 1..Len(tasks') : tasks'[j].n # tasks[i].n
\* task i takes the step
Steps(i) ==
    \A j \in 1..Len(tasks') :
        tasks'[j].n = tasks[i].n
            => (tasks'[j].kind # tasks[i].kind \/ tasks'[j].pc # tasks[i].pc)

\* C4: an unlock attempt started from Locked that fails ends with the
\* session Locked, no session key and no decrypted entries.
C4_AttemptFails(i) ==
    /\ i \in TaskIds /\ IsUnlock(i) /\ tasks[i].origin = "user"
    /\ mounted' /\ Ends(i)
    /\ lastUnlock'.n = tasks[i].n /\ lastUnlock'.cause \notin {"ok", "none"}
C4_FailedUnlockStaysLocked ==
    [][(\E i \in 1..MaxTasks : C4_AttemptFails(i))
          => (~vaultUnlocked' /\ aesKey' = NoKey /\ credentials' = <<>>)]_vars

\* C5: a handleUnlock invocation that was in flight when lockVault ran
\* never afterwards writes aesKey, credentials or vaultUnlocked.
C5_StaleUnlockDiscarded ==
    [][(\E i \in 1..MaxTasks :
            /\ i \in TaskIds /\ IsUnlock(i) /\ tasks[i].lockedSince
            /\ mounted' /\ Ends(i))
          => UNCHANGED <<aesKey, credentials, vaultUnlocked>>]_vars

\* C6: a mutation that was in flight when lockVault ran goes no further:
\* it submits nothing, storage is not changed for it and it starts no
\* refresh; it can only end.
C6_LockedMutationNotApplied ==
    [][\A i \in 1..MaxTasks :
          (/\ i \in TaskIds /\ IsMutation(i) /\ tasks[i].lockedSince
           /\ mounted' /\ Steps(i))
             => (Ends(i) /\ vault' = vault)]_vars

\* C7: while Unlocked exactly one timer is pending, due AUTO_LOCK_TIME
\* after the later of the unlock and the last activity signal (idle is the
\* time since then); the session locks exactly when that much has passed.
C7_AutoLockTiming ==
    /\ [](vaultUnlocked =>
            /\ idle \in 0..AUTO_LOCK_TIME
            /\ timers = {[id |-> timeoutRef, left |-> AUTO_LOCK_TIME - idle]})
    /\ [][(vaultUnlocked /\ ~vaultUnlocked' /\ mounted')
             => idle = AUTO_LOCK_TIME]_vars

\* the timer is due, AUTO_LOCK_TIME after the last signal
C7_Witness ==
    /\ vaultUnlocked /\ idle = AUTO_LOCK_TIME
    /\ \E t \in timers : t.left = 0

\* C8: when a handleSignout issued while Unlocked ends, fulfilled or
\* rejected, the vault is Locked: no key, no decrypted entries, no pending
\* timer.
C8_SignoutLocks ==
    [][(signoutPending /\ signoutUnlocked /\ ~signoutPending')
          => (/\ ~vaultUnlocked' /\ aesKey' = NoKey
              /\ credentials' = <<>> /\ timers' = {})]_vars

\* C9: while Unlocked with no unlock attempt in flight, the component holds
\* no copy of the master password.
C9_PasswordNotRetained ==
    (vaultUnlocked /\ \A i \in TaskIds : ~IsUnlock(i)) => masterPassword = ""

\* C10: the refresh of a successful add, with no lock and no other handler
\* in flight meanwhile, grows the list of decrypted entries by exactly one.
C10_Refreshed(i) ==
    /\ i \in TaskIds /\ IsUnlock(i) /\ tasks[i].origin = "add"
    /\ tasks[i].pc = "decrypt"
    /\ mounted' /\ Ends(i)
    /\ lastUnlock'.n = tasks[i].n /\ lastUnlock'.cause = "ok"
Ids(entries) == {entries[k]._id : k \in 1..Len(entries)}
C10_Fresh(shown, fetched) ==
    /\ Len(shown) = Len(fetched)
    /\ \A k \in 1..Len(fetched) :
          /\ shown[k]._id = fetched[k]._id
          /\ shown[k].decryptedWebsite = fetched[k].website.pt
          /\ shown[k].decryptedUsername = fetched[k].username.pt
          /\ shown[k].decryptedPassword = fetched[k].password.pt
          /\ shown[k].decryptedNotes =
                IF fetched[k].notes = NoEnvelope THEN "" ELSE fetched[k].notes.pt
C10_AddServed(i) ==
    /\ i \in TaskIds /\ tasks[i].kind = "add" /\ tasks[i].pc = "submit"
    /\ Steps(i) /\ mounted' /\ nextId' = nextId + 1
UnlockFails(i) ==
    /\ i \in TaskIds /\ IsUnlock(i)
    /\ mounted' /\ Ends(i)
    /\ lastUnlock'.n = tasks[i].n /\ lastUnlock'.cause \notin {"ok", "none"}

\* C11: whatever sub-step a handleUnlock invocation fails in, the step in
\* which it ends sets the one message and clears isUnlocking and writes no
\* other state, so the state shown after a failure does not depend on the
\* failing sub-step.
C11_FailuresLookAlike ==
    /\ [](lastUnlock.cause \notin {"ok", "none"} => error = MsgUnlock)
    /\ [][\A i \in 1..MaxTasks : UnlockFails(i) =>
            /\ error' = MsgUnlock
            /\ isUnlocking' = FALSE
            /\ UNCHANGED <<masterPassword, vaultUnlocked, credentials,
                           editingEntry, isAdding, isUpdating, showAddForm,
                           newEntry, aesKey, clock>>]_vars

\* an attempt has failed on an unsupported key derivation method
C11_Witness == lastUnlock.cause = "unsupported" /\ error = MsgUnlock /\ mounted

\* the storage request of mutation i settles rejected in this step
MutationFails(i) ==
    /\ i \in TaskIds /\ IsMutation(i) /\ tasks[i].pc = "submit"
    /\ mounted' /\ Steps(i)
    /\ error' = FailureMsg(tasks[i].kind)
\* a fetch of refresh i settles rejected in this step
RefreshFetchFails(i) ==
    /\ UnlockFails(i) /\ tasks[i].origin # "user"
    /\ lastUnlock'.cause \in {"reject", "fetch"}

\* C12: when a storage request of a mutation or a fetch of a refresh fails
\* while Unlocked, the handler ends there (no retry, no new handler), only
\* the error message and the handler's busy flag are written, and
\* vaultUnlocked, aesKey and credentials stay as they were.
C12_StorageFailureLeavesSession ==
    [][\A i \in 1..MaxTasks :
          (vaultUnlocked /\ (MutationFails(i) \/ RefreshFetchFails(i))) =>
            /\ UNCHANGED <<vaultUnlocked, aesKey, credentials, masterPassword,
                           editingEntry, showAddForm, newEntry, clock>>
            /\ error' \in {MsgAdd, MsgUpdate, MsgDelete, MsgUnlock}
            /\ Ends(i) /\ Len(tasks') = Len(tasks) - 1
            /\ started' = started]_vars

\* an addEntry request has failed in an Unlocked session, which goes on
C12_Witness ==
    /\ mounted /\ vaultUnlocked /\ aesKey # NoKey /\ error = MsgAdd
    /\ tasks = <<>> /\ ~isAdding

\* C14: Unlocked with no handler in flight, credentials is the decryption
\* of exactly the entries the storage backend holds.  Stated for the
\* states left by a refresh that succeeded, with no envelope corrupted:
\* there the list differs only when a handleUnlock publishes a snapshot
\* it fetched before a later mutation was stored.
C14_NoDrift ==
    (/\ mounted /\ vaultUnlocked /\ tasks = <<>>
     /\ lastUnlock.cause = "ok" /\ tampers = 0)
        => credentials = decryptAll(vault, aesKey)

\* the session is Locked with its key and its decrypted entries wiped
Wiped == ~vaultUnlocked /\ aesKey = NoKey /\ credentials = <<>>
\* this step unlocks the vault for a request the user made since the
\* last lock
UnlocksOnRequest ==
    \E i \in 1..MaxTasks :
        /\ i \in TaskIds /\ IsUnlock(i) /\ Ends(i)
        /\ tasks[i].origin = "user" /\ ~tasks[i].lockedSince

\* C15: if the activity signals eventually stop, an Unlocked session
\* eventually is Locked and wiped; and a Locked session stays Locked until
\* a request to unlock that the user made since the lock succeeds.
C15_Locks ==
    ([]<><<Activity>>_vars) \/ [](vaultUnlocked => <>Wiped)
C15_AutoLockLiveness ==
    /\ C15_Locks
    /\ [][(~vaultUnlocked /\ vaultUnlocked' /\ mounted') => UnlocksOnRequest]_vars

\* handleActivity runs in this step: the timer is re-armed in a session
\* that is and stays Unlocked
ActivityObserved == vaultUnlocked /\ vaultUnlocked' /\ timeoutRef' # timeoutRef

\* C16: an activity signal observed while Unlocked leaves exactly one timer,
\* with the full duration, and changes nothing else; while Locked no
\* listener is registered, and no step of a session that stays Locked
\* arms a timer.
C16_ActivityFrame ==
    /\ [][ActivityObserved =>
            /\ timers' = {[id |-> timeoutRef', left |-> AUTO_LOCK_TIME]}
            /\ UNCHANGED <<ui, listening, storage, tasks, nav>>]_vars
    /\ [](mounted => (listening <=> vaultUnlocked))
    /\ [][(~vaultUnlocked /\ ~vaultUnlocked') => UNCHANGED clock]_vars

\* an activity signal has re-armed the timer of an Unlocked session that
\* a handler was running in
C16_Witness ==
    /\ vaultUnlocked /\ timeoutRef = 2 /\ idle = 0
    /\ timers = {[id |-> 2, left |-> AUTO_LOCK_TIME]}
    /\ tasks # <<>> /\ error = ""

\* C17: while Unlocked the session key is resident and exactly one
\* inactivity timer is pending, the one the ref names; two pending timers
\* never coexist.
C17_UnlockedHasKeyAndTimer ==
    /\ Cardinality(timers) <= 1
    /\ vaultUnlocked =>
          /\ aesKey # NoKey
          /\ Cardinality(timers) = 1
          /\ \A t \in timers : t.id = timeoutRef /\ t.left \in 0..AUTO_LOCK_TIME

\* a timer that was re-armed has run half of its time in an Unlocked
\* session
C17_Witness ==
    /\ vaultUnlocked /\ aesKey # NoKey
    /\ timers = {[id |-> 2, left |-> TickMs]}

\* the notes envelope stands for the notes text: none for no text
NotesKept(envelope, text) ==
    IF text = "" THEN envelope = NoEnvelope
    ELSE envelope # NoEnvelope /\ envelope.pt = text
\* the entries of a fetched vault that carry a notes envelope
WithNotes(encrypted) ==
    {k \in 1..Len(encrypted) : encrypted[k].notes # NoEnvelope}

\* C18: add and update submit no notes envelope exactly when the notes
\* text is empty, so storage never holds an envelope of the empty string;
\* an unlock makes no decryptData call for an absent notes envelope, shows
\* such an entry with decryptedNotes = "", and does not fail over it.
C18_NotesAbsenceSurvives ==
    /\ [](\A i \in TaskIds :
            (tasks[i].kind \in {"add", "update"} /\ tasks[i].pc = "submit")
                => NotesKept(tasks[i].envelopes.notes, tasks[i].entry.notes))
    /\ [](\A k \in 1..Len(vault) :
            vault[k].notes = NoEnvelope \/ vault[k].notes.pt # "")
    /\ [](\A k \in 1..Len(credentials) :
            NotesKept(credentials[k].notes, credentials[k].decryptedNotes))
    /\ [](\A i \in TaskIds :
            (/\ IsUnlock(i) /\ tasks[i].pc = "decrypt"
             /\ \A k \in 1..Len(tasks[i].encrypted) :
                   ~FailsToDecrypt(tasks[i].encrypted[k], tasks[i].aesKey))
               => tasks[i].decryptCalls =
                     3 * Len(tasks[i].encrypted)
                        + Cardinality(WithNotes(tasks[i].encrypted)))
    /\ [][\A i \in 1..MaxTasks :
            (/\ i \in TaskIds /\ IsUnlock(i) /\ tasks[i].pc = "decrypt"
             /\ mounted' /\ Ends(i)
             /\ \A k \in 1..Len(tasks[i].encrypted) :
                   ~FailsToDecrypt(tasks[i].encrypted[k], tasks[i].aesKey))
               => (lastUnlock'.cause = "ok" /\ vaultUnlocked')]_vars

\* an unlock over one stored entry without notes has succeeded with three
\* decryptData calls, and shows the entry with empty notes
C18_Witness ==
    /\ vaultUnlocked /\ lastUnlock.cause = "ok" /\ lastUnlock.decryptCalls = 3
    /\ Len(credentials) = 1
    /\ credentials[1].notes = NoEnvelope /\ credentials[1].decryptedNotes = ""

\* refresh i, whose mutation or which itself was in flight when lockVault
\* ran, ends in this step
StaleRefreshEnds(i) ==
    /\ i \in TaskIds /\ IsUnlock(i) /\ tasks[i].origin # "user"
    /\ (tasks[i].lockedSince \/ tasks[i].parentLocked)
    /\ mounted' /\ Ends(i)

\* C19: the refresh of a mutation never unlocks a vault that was locked
\* since the mutation started, and every step from Locked to Unlocked is
\* the success of a request the user made since the last lock.
C19_OnlyUserUnlocks ==
    /\ [][\A i \in 1..MaxTasks :
            (~vaultUnlocked /\ StaleRefreshEnds(i)) => ~vaultUnlocked']_vars
    /\ [][(~vaultUnlocked /\ vaultUnlocked' /\ mounted')
             => \E i \in 1..MaxTasks :
                    /\ i \in TaskIds /\ IsUnlock(i) /\ Ends(i)
                    /\ tasks[i].origin = "user" /\ ~tasks[i].lockedSince]_vars

\* C20: isUnlocking is true exactly while a handleUnlock invocation, first
\* unlock or refresh, is in flight.
C20_FlagTracksUnlocks ==
    mounted => (isUnlocking <=> \E i \in TaskIds : IsUnlock(i))

====
